---- MODULE Spec2Model ----
(***************************************************************************)
(* The resolvers of the employee-management API (src/graphql/resolvers.js) *)
(* over the two document collections they read and write: User and         *)
(* Employee (src/models/Employee.js).                                      *)
(*                                                                         *)
(* Every resolver is an async function.  Between two of its awaits that    *)
(* reach the store (or the image host) other resolvers may run, so each    *)
(* such await is one atomic step of a process; the code between two awaits *)
(* touches only the request's own arguments and belongs to the step that   *)
(* precedes it.  runValidation reads nothing but the arguments and is part *)
(* of the step that starts the call.                                       *)
(*                                                                         *)
(* Arguments are records holding exactly the supplied fields, as the       *)
(* GraphQL layer hands them to a resolver.                                 *)
(***************************************************************************)
EXTENDS Integers, Sequences, FiniteSets, TLC

VARIABLES
    users,      \* the User collection: a set of documents
    employees,  \* the Employee collection: a set of documents
    now,        \* the store's clock at its latest write
    nextId,     \* how many Employee ObjectIds the store has generated
    jwtSecret,  \* process.env.JWT_SECRET
    pc,         \* per request slot: the await the resolver is suspended at
    op,         \* per request slot: the resolver running in it
    args,       \* per request slot: the arguments of the call
    photoUrl,   \* per request slot: addEmployee's local photoUrl
    result,     \* per request slot: what the resolver returned or threw
    started,    \* the number of calls started so far
    added       \* history: per Employee id, the arguments addEmployee
                \* created it from, until an update or delete touches it

vars == <<users, employees, now, nextId, jwtSecret, pc, op, args, photoUrl,
          result, started, added>>

(***************************************************************************)
(* Bounds of the model.                                                    *)
(***************************************************************************)
MaxCalls == 2       \* calls started in one behaviour
MaxClock == 1       \* the clock's last value
Procs == {"r1", "r2"}   \* request slots: calls in flight at the same time

(***************************************************************************)
(* Values.                                                                 *)
(***************************************************************************)
Undefined == "<undefined>"
EmptyRec == [k \in {} |-> TRUE]
Opt(f, S) == {EmptyRec} \cup {(f :> v) : v \in S}
Has(r, f) == f \in DOMAIN r
\* JavaScript truthiness of an optional string argument: absent and "" are falsy.
Truthy(r, f) == Has(r, f) /\ r[f] # ""

\* String.prototype.toLowerCase on the strings of the model.
ToLowerCase(s) ==
    CASE s = "A@x.io" -> "a@x.io"
      [] s = "B@x.io" -> "b@x.io"
      [] OTHER -> s

\* The schema's trim setter on the strings of the model.
Trim(s) ==
    CASE s = " " -> ""
      [] s = " Ops " -> "Ops"
      [] OTHER -> s

\* validator.js isEmail on the strings of the model.
IsEmail(s) == s \in {"a@x.io", "A@x.io", "b@x.io", "B@x.io"}

(***************************************************************************)
(* Errors.  A GraphQLError carries its kind in extensions.code and has no  *)
(* code property of its own; a store error is not a GraphQLError.          *)
(***************************************************************************)
GraphQLError(msg, extCode) ==
    [name |-> "GraphQLError", message |-> msg, extensions |-> [code |-> extCode]]

\* The store's duplicate-key failure on a unique index over the fields keys.
DuplicateKeyCode == 11000
DuplicateKeyError(keys) ==
    [name |-> "MongoServerError", message |-> "E11000 duplicate key error",
     code |-> DuplicateKeyCode, keyPattern |-> [k \in keys |-> 1]]

\* Mongoose's failure of a schema validator (required, min) on a write.
ValidationError(msg) == [name |-> "ValidationError", message |-> msg]

EmailExistsError == GraphQLError("Email already exists.", "BAD_USER_INPUT")

handleDuplicateEmailError_NoRemap(error) == error

handleDuplicateEmailError_RemapAll(error) == EmailExistsError

handleDuplicateEmailError_AnyStoreError(error) ==
    IF error.name # "GraphQLError" THEN EmailExistsError ELSE error

\* What handleDuplicateEmailError(error) throws.
handleDuplicateEmailError(error) ==
    IF /\ Has(error, "code") /\ error.code = DuplicateKeyCode
       /\ Has(error, "keyPattern") /\ Has(error.keyPattern, "email")
    THEN EmailExistsError
    ELSE error

\* What the server sends the caller for an error a resolver threw: the
\* error's own extensions.code, and INTERNAL_SERVER_ERROR for one without.
FormatError(e) ==
    [message |-> e.message,
     extensions |->
        [code |-> IF Has(e, "extensions") /\ Has(e.extensions, "code")
                  THEN e.extensions.code
                  ELSE "INTERNAL_SERVER_ERROR"]]

Returned(v) == [status |-> "ok", value |-> v]
Thrown(e) == [status |-> "error", error |-> e]
NoResult == [status |-> "none"]

\* runValidation(schema, args): errs is errors.array() as messages, in the
\* schema's field order; a non-empty one is thrown as its first message.
runValidation(errs) == GraphQLError(Head(errs), "BAD_USER_INPUT")

Check(failed, msg) == IF failed THEN <<msg>> ELSE <<>>

(***************************************************************************)
(* Credentials.                                                            *)
(***************************************************************************)
MinPasswordLen == 6
MinUsernameLen == 3
BcryptRounds == 10

\* bcrypt.hash(password, rounds): one-way; bcrypt.compare verifies it.
BcryptHash(password, rounds) ==
    [alg |-> "bcrypt", rounds |-> rounds, of |-> password]
BcryptCompare(password, hash) == hash.alg = "bcrypt" /\ hash.of = password

PasswordErrors(a) ==
    Check(a.password = "", "Password is required.")
    \o Check(Len(a.password) < MinPasswordLen,
             "Password must be at least 6 characters.")

\* The schema login validates its arguments with.
ValidateLogin(a) == PasswordErrors(a)

\* The schema signup validates its arguments with.
ValidateSignup(a) ==
    Check(a.username = "", "Username is required.")
    \o Check(Len(a.username) < MinUsernameLen,
             "Username must be at least 3 characters.")
    \o Check(a.email = "", "Email is required.")
    \o Check(~IsEmail(a.email), "Email format is invalid.")
    \o PasswordErrors(a)

(***************************************************************************)
(* The User collection: email lower-cased on write and unique; username    *)
(* not unique.                                                             *)
(***************************************************************************)
\* The document User.findOne(query) returns (none: it returns null): without
\* a sort, the first match in the collection's natural order, which for
\* documents that are never updated or deleted is the order of insertion.
UserFindOne(query) ==
    LET matches == {u \in users : \A f \in DOMAIN query : u[f] = query[f]}
    IN {u \in matches : \A v \in matches : u._id <= v._id}

\* User.create(doc): the error the store raises, or Undefined and the insert.
UserCreateError(doc) ==
    IF \E u \in users : u.email = ToLowerCase(doc.email)
    THEN DuplicateKeyError({"email"})
    ELSE [name |-> Undefined]

UserDocument(doc) ==
    [_id |-> Cardinality(users) + 1, username |-> doc.username,
     email |-> ToLowerCase(doc.email), password |-> doc.password]

(***************************************************************************)
(* Inputs.                                                                 *)
(***************************************************************************)
Passwords == {"secret1", "secret2", "abc"}

SignupArgs ==
    {[username |-> "bob", email |-> e, password |-> pw] :
        e \in {"a@x.io", "A@x.io", "b@x.io"}, pw \in {"secret1", "secret2"}}
    \cup {[username |-> "al", email |-> "a@x.io", password |-> "secret1"],
          [username |-> "bob", email |-> "bad", password |-> "secret1"],
          [username |-> "bob", email |-> "a@x.io", password |-> "abc"]}
LoginArgs ==
    {u @@ e @@ [password |-> pw] :
        u \in Opt("username", {"bob", "amy"}),
        e \in Opt("email", {"A@x.io"}),
        pw \in Passwords}

(***************************************************************************)
(* Request slots.                                                          *)
(***************************************************************************)
Begin(p, name, a) ==
    /\ pc[p] \in {"idle", "done"}
    /\ started < MaxCalls
    /\ photoUrl' = [photoUrl EXCEPT ![p] = Undefined]
    /\ started' = started + 1
    /\ op' = [op EXCEPT ![p] = name]
    /\ args' = [args EXCEPT ![p] = a]

Goto(p, label) ==
    /\ pc' = [pc EXCEPT ![p] = label]
    /\ result' = result

Finish(p, r) ==
    /\ pc' = [pc EXCEPT ![p] = "done"]
    /\ result' = [result EXCEPT ![p] = r]

(***************************************************************************)
(* Mutation.signup                                                         *)
(***************************************************************************)
SignupCall(p) ==
    \E a \in SignupArgs :
        /\ Begin(p, "signup", a)
        /\ IF ValidateSignup(a) # <<>>
           THEN Finish(p, Thrown(runValidation(ValidateSignup(a))))
           ELSE Goto(p, "signup_findOne")
        /\ UNCHANGED <<users, employees, now, nextId, jwtSecret, added>>

SignupFindOne(p) ==
    /\ pc[p] = "signup_findOne"
    /\ IF UserFindOne([email |-> ToLowerCase(args[p].email)]) # {}
       THEN Finish(p, Thrown(EmailExistsError))
       ELSE Goto(p, "signup_create")
    /\ UNCHANGED <<users, employees, now, nextId, jwtSecret, op, args,
                   photoUrl, started, added>>

SignupCreate(p) ==
    /\ pc[p] = "signup_create"
    /\ LET doc == [username |-> args[p].username,
                   email |-> ToLowerCase(args[p].email),
                   password |-> BcryptHash(args[p].password, BcryptRounds)]
           err == UserCreateError(doc)
       IN IF err.name # Undefined
          THEN /\ Finish(p, Thrown(handleDuplicateEmailError(err)))
               /\ users' = users
          ELSE /\ Finish(p, Returned(UserDocument(doc)))
               /\ users' = users \cup {UserDocument(doc)}
    /\ UNCHANGED <<employees, now, nextId, jwtSecret, op, args, photoUrl,
                   started, added>>

(***************************************************************************)
(* Query.login                                                             *)
(***************************************************************************)
InvalidCredentialsNoUser_Revealing ==
    GraphQLError("User not found.", "UNAUTHENTICATED")

InvalidCredentialsNoUser == GraphQLError("Invalid credentials.", "UNAUTHENTICATED")
InvalidCredentialsBadPassword ==
    GraphQLError("Invalid credentials.", "UNAUTHENTICATED")

LoginQuery(a) ==
    IF Truthy(a, "username")
    THEN [username |-> a.username]
    ELSE [email |-> ToLowerCase(a.email)]

\* jwt.sign(payload, secret, {expiresIn: '1d'})
JwtSign(user, secret) ==
    [userId |-> user._id, username |-> user.username, email |-> user.email,
     signedWith |-> secret, expiresIn |-> "1d"]

\* login from the document findOne returned (found) or null (~found).
LoginOutcome(a, found, user) ==
    IF ~found THEN Thrown(InvalidCredentialsNoUser)
    ELSE IF ~BcryptCompare(a.password, user.password)
    THEN Thrown(InvalidCredentialsBadPassword)
    ELSE IF jwtSecret = Undefined
    THEN Thrown(GraphQLError("JWT_SECRET is not configured.",
                             "INTERNAL_SERVER_ERROR"))
    ELSE Returned(JwtSign(user, jwtSecret))

LoginCall(p) ==
    \E a \in LoginArgs :
        /\ Begin(p, "login", a)
        /\ IF ValidateLogin(a) # <<>>
           THEN Finish(p, Thrown(runValidation(ValidateLogin(a))))
           ELSE IF ~Truthy(a, "username") /\ ~Truthy(a, "email")
           THEN Finish(p, Thrown(GraphQLError(
                    "Either username or email is required for login.",
                    "BAD_USER_INPUT")))
           ELSE Goto(p, "login_findOne")
        /\ UNCHANGED <<users, employees, now, nextId, jwtSecret, added>>

LoginFindOne(p) ==
    /\ pc[p] = "login_findOne"
    /\ LET matches == UserFindOne(LoginQuery(args[p]))
       IN IF matches = {}
          THEN Finish(p, LoginOutcome(args[p], FALSE, EmptyRec))
          ELSE \E user \in matches :
                   Finish(p, LoginOutcome(args[p], TRUE, user))
    /\ UNCHANGED <<users, employees, now, nextId, jwtSecret, op, args,
                   photoUrl, started, added>>

(***************************************************************************)
(* The account service on its own: signup and login calls in any           *)
(* interleaving.                                                           *)
(***************************************************************************)
\* An account an earlier signup created.
SeedUser ==
    [_id |-> 1, username |-> "bob", email |-> "b@x.io",
     password |-> BcryptHash("secret1", BcryptRounds)]

Idle ==
    /\ pc = [p \in Procs |-> "idle"]
    /\ op = [p \in Procs |-> "none"]
    /\ args = [p \in Procs |-> EmptyRec]
    /\ photoUrl = [p \in Procs |-> Undefined]
    /\ result = [p \in Procs |-> NoResult]
    /\ started = 0

InitAccount ==
    /\ users \in {{}, {SeedUser}}
    /\ jwtSecret \in {Undefined, "s3cret"}
    /\ employees = {}
    /\ now = 0
    /\ nextId = 0
    /\ added = EmptyRec
    /\ Idle

NextAccount ==
    \E p \in Procs :
        \/ SignupCall(p)
        \/ SignupFindOne(p)
        \/ SignupCreate(p)
        \/ LoginCall(p)
        \/ LoginFindOne(p)

SpecAccount == InitAccount /\ [][NextAccount]_vars

(***************************************************************************)
(* The Employee collection (src/models/Employee.js).  Of the schema's      *)
(* fields the model carries email, salary, designation, department and    *)
(* employee_photo: first_name, last_name and date_of_joining are declared  *)
(* as designation is (a required, trimmed String) and gender as            *)
(* employee_photo is.                                                      *)
(*                                                                         *)
(* An identifier is a string: GeneratedId(n) is the n-th ObjectId the      *)
(* store generated, GeneratedId(0) a well-formed ObjectId it never         *)
(* generates, anything else is not an ObjectId.                            *)
(***************************************************************************)
MinSalary == 1000
SchemaMinSalary == 1000

GeneratedId(n) == "oid" \o ToString(n)

ObjectIdIsValid_Always(eid) == TRUE

\* mongoose.Types.ObjectId.isValid(eid)
ObjectIdIsValid(eid) == eid \in {GeneratedId(n) : n \in 0..(MaxCalls + 2)}

\* The schema's setters, run on the supplied paths of a document or an update.
ApplySetters(fields) ==
    [f \in DOMAIN fields |->
        CASE f = "email" -> ToLowerCase(Trim(fields[f]))
          [] f \in {"designation", "department"} -> Trim(fields[f])
          [] f = "employee_photo" ->
                IF fields[f] = Undefined THEN Undefined ELSE Trim(fields[f])
          [] OTHER -> fields[f]]

\* The schema's validators on the supplied paths (after the setters): the
\* messages of those that fail.
SchemaErrors(fields) ==
    Check(Has(fields, "email") /\ fields.email = "", "Path email is required.")
    \o Check(Has(fields, "designation") /\ fields.designation = "",
             "Path designation is required.")
    \o Check(Has(fields, "salary") /\ fields.salary < SchemaMinSalary,
             "Salary must be at least 1000")
    \o Check(Has(fields, "department") /\ fields.department = "",
             "Path department is required.")

EmailIndexConflict_NoIndex(eid, email) == FALSE

\* Whether the unique index on email rejects giving the document eid this email.
EmailIndexConflict(eid, email) ==
    \E e \in employees : e._id # eid /\ e.email = email

\* The documents Employee.findOne(query) may return.
EmployeeFindOne(query) ==
    {e \in employees :
        /\ Has(query, "email") => e.email = query.email
        /\ Has(query, "_id_ne") => e._id # query._id_ne}

EmployeeFindById_Any(eid) == employees

\* Employee.findById(eid): the documents with that id (at most one).
EmployeeFindById(eid) == {e \in employees : e._id = eid}

\* Employee.create(fields): the error the store raises, or none.
EmployeeCreateError(fields) ==
    LET doc == ApplySetters(fields)
    IN IF SchemaErrors(doc) # <<>>
       THEN ValidationError(Head(SchemaErrors(doc)))
       ELSE IF EmailIndexConflict(GeneratedId(nextId + 1), doc.email)
       THEN DuplicateKeyError({"email"})
       ELSE [name |-> Undefined]

\* The document Employee.create(fields) inserts at time t.
EmployeeDocument(fields, t) ==
    ApplySetters(fields) @@
    [_id |-> GeneratedId(nextId + 1), created_at |-> t, updated_at |-> t]

ApplyUpdate_Replace(doc, updates, t) ==
    [f \in DOMAIN doc |->
        IF f = "_id" \/ f = "created_at" THEN doc[f]
        ELSE IF f = "updated_at" THEN t
        ELSE IF Has(updates, f) THEN ApplySetters(updates)[f]
        ELSE IF f = "salary" THEN SchemaMinSalary
        ELSE Undefined]

\* findByIdAndUpdate's $set of the supplied paths at time t; the schema's
\* timestamps option sets updated_at.
ApplyUpdate(doc, updates, t) ==
    [f \in DOMAIN doc |->
        IF f = "updated_at" THEN t
        ELSE IF Has(updates, f) THEN ApplySetters(updates)[f]
        ELSE doc[f]]

\* Employee.findByIdAndUpdate(eid, updates, {new, runValidators}): the error
\* the store raises, or none.  The update validators run before the query.
EmployeeUpdateError(eid, updates) ==
    LET set == ApplySetters(updates)
    IN IF SchemaErrors(set) # <<>>
       THEN ValidationError(Head(SchemaErrors(set)))
       ELSE IF /\ EmployeeFindById(eid) # {}
               /\ Has(set, "email")
               /\ EmailIndexConflict(eid, set.email)
       THEN DuplicateKeyError({"email"})
       ELSE [name |-> Undefined]

InvalidIdError == GraphQLError("Invalid employee ID.", "BAD_USER_INPUT")
NotFoundError == GraphQLError("Employee not found.", "NOT_FOUND")
UploadFailedError ==
    GraphQLError("Employee photo upload failed.", "INTERNAL_SERVER_ERROR")
DeletedMessage == "Employee deleted successfully."

ValidateAddEmployee_NoSalaryRule(a) ==
    Check(a.email = "", "Email is required.")
    \o Check(~IsEmail(a.email), "Email format is invalid.")
    \o Check(a.designation = "", "Designation is required.")
    \o Check(a.department = "", "Department is required.")

\* The schema addEmployee validates its arguments with.
ValidateAddEmployee(a) ==
    Check(a.email = "", "Email is required.")
    \o Check(~IsEmail(a.email), "Email format is invalid.")
    \o Check(a.designation = "", "Designation is required.")
    \o Check(a.salary < MinSalary, "Salary must be at least 1000.")
    \o Check(a.department = "", "Department is required.")

\* The schema updateEmployee validates its arguments with.
ValidateUpdateEmployee(a) ==
    Check(a.eid = "", "Employee ID is required.")
    \o Check(Has(a, "email") /\ ~IsEmail(a.email), "Email format is invalid.")
    \o Check(Has(a, "salary") /\ a.salary < MinSalary,
             "Salary must be at least 1000.")

\* const { eid, ...updates } = args
Updates(a) == [f \in DOMAIN a \ {"eid"} |-> a[f]]

\* updates once the pre-check has lower-cased a supplied email
UpdatesLowered(a) ==
    [f \in DOMAIN a \ {"eid"} |->
        IF f = "email" /\ Truthy(a, "email") THEN ToLowerCase(a[f]) ELSE a[f]]

(***************************************************************************)
(* Inputs.                                                                 *)
(***************************************************************************)
AddEmployeeArgs ==
    {[designation |-> "Eng", department |-> "Platform", email |-> e,
      salary |-> 1000] : e \in {"a@x.io", "A@x.io", "B@x.io"}}
    \cup {[designation |-> "Eng", department |-> "Platform",
           email |-> "a@x.io", salary |-> sal] : sal \in {999, 5000}}
    \cup {[designation |-> d, department |-> "Platform", email |-> "a@x.io",
           salary |-> 5000] : d \in {"", " "}}
    \cup {[designation |-> "Eng", department |-> "Platform", email |-> "bad",
           salary |-> 5000],
          [designation |-> "Eng", department |-> "Platform",
           email |-> "a@x.io", salary |-> 5000, employee_photo |-> "img"]}

Eids == {"xyz", GeneratedId(0), GeneratedId(1)}

UpdateFields ==
    {[email |-> "A@x.io"], [email |-> "B@x.io", salary |-> 1000],
     [salary |-> 999], [salary |-> 1000],
     [designation |-> ""], [designation |-> " Ops "]}

UpdateEmployeeArgs ==
    {[eid |-> i] @@ u : i \in {GeneratedId(0), GeneratedId(1)}, u \in UpdateFields}
    \cup {[eid |-> "", salary |-> 1000], [eid |-> "xyz", salary |-> 1000],
          [eid |-> GeneratedId(1), email |-> "bad"]}

(***************************************************************************)
(* Mutation.addEmployee                                                    *)
(***************************************************************************)
AddEmployeeCall(p) ==
    \E a \in AddEmployeeArgs :
        /\ Begin(p, "addEmployee", a)
        /\ IF ValidateAddEmployee(a) # <<>>
           THEN Finish(p, Thrown(runValidation(ValidateAddEmployee(a))))
           ELSE Goto(p, "add_findOne")
        /\ UNCHANGED <<users, employees, now, nextId, jwtSecret, added>>

AddEmployeeFindOne(p) ==
    /\ pc[p] = "add_findOne"
    /\ IF EmployeeFindOne([email |-> ToLowerCase(args[p].email)]) # {}
       THEN Finish(p, Thrown(EmailExistsError))
       ELSE IF Truthy(args[p], "employee_photo")
       THEN Goto(p, "add_upload")
       ELSE Goto(p, "add_create")
    /\ UNCHANGED <<users, employees, now, nextId, jwtSecret, op, args,
                   photoUrl, started, added>>

\* uploadEmployeePhoto: the image host stores the photo or fails.
AddEmployeeUpload(p) ==
    /\ pc[p] = "add_upload"
    /\ \/ /\ Goto(p, "add_create")
          /\ photoUrl' = [photoUrl EXCEPT ![p] = "https://img/1"]
       \/ /\ Finish(p, Thrown(UploadFailedError))
          /\ photoUrl' = photoUrl
    /\ UNCHANGED <<users, employees, now, nextId, jwtSecret, op, args,
                   started, added>>

AddEmployeeCreate(p) ==
    /\ pc[p] = "add_create"
    /\ LET fields == [f \in DOMAIN args[p] \cup {"employee_photo"} |->
                        IF f = "email" THEN ToLowerCase(args[p].email)
                        ELSE IF f = "employee_photo" THEN photoUrl[p]
                        ELSE args[p][f]]
           err == EmployeeCreateError(fields)
       IN IF err.name # Undefined
          THEN /\ Finish(p, Thrown(handleDuplicateEmailError(err)))
               /\ UNCHANGED <<employees, now, nextId, added>>
          ELSE \E t \in now..MaxClock :
               /\ Finish(p, Returned(EmployeeDocument(fields, t)))
               /\ employees' = employees \cup {EmployeeDocument(fields, t)}
               /\ now' = t
               /\ nextId' = nextId + 1
               /\ added' = (GeneratedId(nextId + 1) :>
                               [email |-> args[p].email,
                                salary |-> args[p].salary]) @@ added
    /\ UNCHANGED <<users, jwtSecret, op, args, photoUrl, started>>

(***************************************************************************)
(* Mutation.updateEmployee                                                 *)
(***************************************************************************)
UpdateEmployeeCall(p) ==
    \E a \in UpdateEmployeeArgs :
        /\ Begin(p, "updateEmployee", a)
        /\ IF ValidateUpdateEmployee(a) # <<>>
           THEN Finish(p, Thrown(runValidation(ValidateUpdateEmployee(a))))
           ELSE IF ~ObjectIdIsValid(a.eid)
           THEN Finish(p, Thrown(InvalidIdError))
           ELSE IF Truthy(Updates(a), "email")
           THEN Goto(p, "update_findOne")
           ELSE Goto(p, "update_findByIdAndUpdate")
        /\ UNCHANGED <<users, employees, now, nextId, jwtSecret, added>>

UpdateEmployeeFindOne(p) ==
    /\ pc[p] = "update_findOne"
    /\ IF EmployeeFindOne([_id_ne |-> args[p].eid,
                           email |-> ToLowerCase(args[p].email)]) # {}
       THEN Finish(p, Thrown(EmailExistsError))
       ELSE Goto(p, "update_findByIdAndUpdate")
    /\ UNCHANGED <<users, employees, now, nextId, jwtSecret, op, args,
                   photoUrl, started, added>>

UpdateEmployeeFindByIdAndUpdate(p) ==
    /\ pc[p] = "update_findByIdAndUpdate"
    /\ LET eid == args[p].eid
           updates == UpdatesLowered(args[p])
           err == EmployeeUpdateError(eid, updates)
           found == EmployeeFindById(eid)
       IN IF err.name # Undefined
          THEN /\ Finish(p, Thrown(handleDuplicateEmailError(err)))
               /\ UNCHANGED <<employees, now, added>>
          ELSE IF found = {}
          THEN /\ Finish(p, Thrown(handleDuplicateEmailError(NotFoundError)))
               /\ UNCHANGED <<employees, now, added>>
          ELSE \E doc \in found, t \in now..MaxClock :
               /\ Finish(p, Returned(ApplyUpdate(doc, updates, t)))
               /\ employees' = (employees \ {doc})
                                   \cup {ApplyUpdate(doc, updates, t)}
               /\ now' = t
               /\ added' = [i \in DOMAIN added \ {eid} |-> added[i]]
    /\ UNCHANGED <<users, nextId, jwtSecret, op, args, photoUrl, started>>

(***************************************************************************)
(* Mutation.deleteEmployee                                                 *)
(***************************************************************************)
DeleteEmployeeCall(p) ==
    \E a \in [eid : Eids] :
        /\ Begin(p, "deleteEmployee", a)
        /\ IF ~ObjectIdIsValid(a.eid)
           THEN Finish(p, Thrown(InvalidIdError))
           ELSE Goto(p, "delete_findByIdAndDelete")
        /\ UNCHANGED <<users, employees, now, nextId, jwtSecret, added>>

DeleteEmployeeFindByIdAndDelete(p) ==
    /\ pc[p] = "delete_findByIdAndDelete"
    /\ LET eid == args[p].eid
           found == EmployeeFindById(eid)
       IN IF found = {}
          THEN /\ Finish(p, Thrown(NotFoundError))
               /\ UNCHANGED <<employees, added>>
          ELSE /\ Finish(p, Returned(DeletedMessage))
               /\ employees' = employees \ found
               /\ added' = [i \in DOMAIN added \ {eid} |-> added[i]]
    /\ UNCHANGED <<users, now, nextId, jwtSecret, op, args, photoUrl, started>>

(***************************************************************************)
(* Query.getEmployeeById                                                   *)
(***************************************************************************)
GetEmployeeByIdCall(p) ==
    \E a \in [eid : Eids] :
        /\ Begin(p, "getEmployeeById", a)
        /\ IF ~ObjectIdIsValid(a.eid)
           THEN Finish(p, Thrown(InvalidIdError))
           ELSE Goto(p, "get_findById")
        /\ UNCHANGED <<users, employees, now, nextId, jwtSecret, added>>

GetEmployeeByIdFindById(p) ==
    /\ pc[p] = "get_findById"
    /\ LET found == EmployeeFindById(args[p].eid)
       IN IF found = {}
          THEN Finish(p, Thrown(NotFoundError))
          ELSE \E doc \in found : Finish(p, Returned(doc))
    /\ UNCHANGED <<users, employees, now, nextId, jwtSecret, op, args,
                   photoUrl, started, added>>

(***************************************************************************)
(* Query.getEmployees and Query.searchEmployee                             *)
(***************************************************************************)
\* The orders find(...).sort({created_at: -1}) may return the documents of
\* S in: latest first, documents created at the same time in any order.
SortedByCreatedAtDesc(S) ==
    {seq \in [1..Cardinality(S) -> S] :
        /\ \A i, j \in DOMAIN seq : i < j =>
              /\ seq[i] # seq[j]
              /\ seq[i].created_at >= seq[j].created_at}

\* new RegExp(pattern, 'i') throws on a pattern that is no regular expression.
RegExpIsValid(pattern) == pattern # "("

\* new RegExp(pattern, 'i').test(value) on the strings of the model: the
\* pattern occurs in the value, letter case ignored.
RegExpTest(pattern, value) ==
    CASE pattern = "eng" -> value \in {"Eng"}
      [] pattern = "plat" -> value \in {"Platform"}
      [] OTHER -> FALSE

SearchEmployeeArgs ==
    {EmptyRec, [designation |-> "eng"], [designation |-> "("],
     [designation |-> "eng", department |-> "plat"]}

GetEmployeesCall(p) ==
    /\ Begin(p, "getEmployees", EmptyRec)
    /\ Goto(p, "list_find")
    /\ UNCHANGED <<users, employees, now, nextId, jwtSecret, added>>

GetEmployeesFind(p) ==
    /\ pc[p] = "list_find"
    /\ \E seq \in SortedByCreatedAtDesc(employees) : Finish(p, Returned(seq))
    /\ UNCHANGED <<users, employees, now, nextId, jwtSecret, op, args,
                   photoUrl, started, added>>

SearchEmployeeCall(p) ==
    \E a \in SearchEmployeeArgs :
        /\ Begin(p, "searchEmployee", a)
        /\ IF ~Truthy(a, "designation") /\ ~Truthy(a, "department")
           THEN Finish(p, Thrown(GraphQLError(
                    "Provide at least one filter: designation or department.",
                    "BAD_USER_INPUT")))
           ELSE IF \E f \in DOMAIN a : Truthy(a, f) /\ ~RegExpIsValid(a[f])
           THEN Finish(p, Thrown([name |-> "SyntaxError",
                                  message |-> "Invalid regular expression"]))
           ELSE Goto(p, "search_find")
        /\ UNCHANGED <<users, employees, now, nextId, jwtSecret, added>>

SearchEmployeeFind(p) ==
    /\ pc[p] = "search_find"
    /\ LET matches ==
               {e \in employees :
                   \A f \in DOMAIN args[p] :
                       Truthy(args[p], f) => RegExpTest(args[p][f], e[f])}
       IN \E seq \in SortedByCreatedAtDesc(matches) : Finish(p, Returned(seq))
    /\ UNCHANGED <<users, employees, now, nextId, jwtSecret, op, args,
                   photoUrl, started, added>>

(***************************************************************************)
(* The employee directory on its own: its calls in any interleaving.       *)
(***************************************************************************)
NextEmployee ==
    \/ \E p \in Procs :
        \/ AddEmployeeCall(p)
        \/ AddEmployeeFindOne(p)
        \/ AddEmployeeUpload(p)
        \/ AddEmployeeCreate(p)
        \/ UpdateEmployeeCall(p)
        \/ UpdateEmployeeFindOne(p)
        \/ UpdateEmployeeFindByIdAndUpdate(p)
        \/ DeleteEmployeeCall(p)
        \/ DeleteEmployeeFindByIdAndDelete(p)
        \/ GetEmployeeByIdCall(p)
        \/ GetEmployeeByIdFindById(p)
        \/ GetEmployeesCall(p)
        \/ GetEmployeesFind(p)
        \/ SearchEmployeeCall(p)
        \/ SearchEmployeeFind(p)

\* Two employees earlier addEmployee calls created, and the arguments they
\* were created from.
SeedArgs ==
    (GeneratedId(1) :> [email |-> "B@x.io", salary |-> 5000])
    @@ (GeneratedId(2) :> [email |-> "c@x.io", salary |-> 1000])
SeedEmployees ==
    {[_id |-> i, designation |-> "Eng", department |-> "Platform",
      email |-> ToLowerCase(SeedArgs[i].email),
      salary |-> SeedArgs[i].salary, employee_photo |-> Undefined,
      created_at |-> 0, updated_at |-> 0] : i \in DOMAIN SeedArgs}

InitEmployee ==
    /\ users = {}
    /\ jwtSecret = "s3cret"
    /\ \/ employees = {} /\ nextId = 0 /\ added = EmptyRec
       \/ /\ employees = SeedEmployees
          /\ nextId = Cardinality(SeedEmployees)
          /\ added = SeedArgs
    /\ now = 0
    /\ Idle

SpecEmployee == InitEmployee /\ [][NextEmployee]_vars

Init == InitAccount \/ InitEmployee
Next == NextAccount \/ NextEmployee
Spec == Init /\ [][Next]_vars

(***************************************************************************)
(* Properties of the account service.                                      *)
(***************************************************************************)
Done(p, name) == op[p] = name /\ pc[p] = "done"
Succeeded(p) == result[p].status = "ok"
FailedWith(p, e) == result[p].status = "error" /\ result[p].error = e
DuplicateEmail == GraphQLError("Email already exists.", "BAD_USER_INPUT")

\* C1: of two signup calls with the same email up to letter case and
\* otherwise valid input, run in any interleaving on an email no account
\* held before them, exactly one succeeds and the other fails with
\* BAD_USER_INPUT 'Email already exists.'; and no valid signup ever fails
\* with anything else, a store error in particular.
C1_ConcurrentSignup ==
    /\ \A p \in Procs :
        Done(p, "signup") /\ ValidateSignup(args[p]) = <<>>
            => Succeeded(p) \/ FailedWith(p, DuplicateEmail)
    /\ \A p, q \in Procs :
        ( /\ p # q
          /\ Done(p, "signup") /\ ValidateSignup(args[p]) = <<>>
          /\ Done(q, "signup") /\ ValidateSignup(args[q]) = <<>>
          /\ ToLowerCase(args[p].email) = ToLowerCase(args[q].email)
          /\ \A u \in users :
                u.email = ToLowerCase(args[p].email)
                    => \E r \in {p, q} :
                          Succeeded(r) /\ result[r].value._id = u._id )
        => \/ Succeeded(p) /\ FailedWith(q, DuplicateEmail)
           \/ Succeeded(q) /\ FailedWith(p, DuplicateEmail)

\* Two signup calls whose emails differ only in case have both returned:
\* one created the account, the other was refused.
C1_Witness ==
    \E p, q \in Procs :
        /\ Done(p, "signup") /\ Done(q, "signup")
        /\ args[p].email = "a@x.io" /\ args[q].email = "A@x.io"
        /\ Succeeded(p) /\ FailedWith(q, DuplicateEmail)
        /\ \E u \in users : u._id = result[p].value._id /\ u.email = "a@x.io"

\* C4: with the signing secret configured, a login with the username and
\* the password of an account that signup created returns a token.
C4_LoginWithAccountCredentials ==
    [][\A p \in Procs :
        ( /\ pc[p] = "login_findOne" /\ pc'[p] = "done"
          /\ jwtSecret # Undefined
          /\ Has(args[p], "username")
          /\ \E u \in users :
                /\ u.username = args[p].username
                /\ BcryptCompare(args[p].password, u.password) )
        => result'[p].status = "ok"]_vars

\* C5: a login whose password passes validation and that names a username
\* or an email fails in the same way when no account matches and when the
\* password does not verify: UNAUTHENTICATED, 'Invalid credentials.'.  (Its
\* only other failure is the missing signing secret, after both checks.)
C5_SameErrorForUnknownAndWrongPassword ==
    \A p \in Procs :
        ( /\ Done(p, "login")
          /\ ValidateLogin(args[p]) = <<>>
          /\ Truthy(args[p], "username") \/ Truthy(args[p], "email")
          /\ result[p].status = "error"
          /\ result[p].error.extensions.code # "INTERNAL_SERVER_ERROR" )
        => result[p].error =
              GraphQLError("Invalid credentials.", "UNAUTHENTICATED")

\* One login named a username no account has, another the username of an
\* account with a password that is not its own; both have failed.
C5_Witness ==
    \E p, q \in Procs :
        /\ Done(p, "login") /\ Done(q, "login")
        /\ Has(args[p], "username") /\ Has(args[q], "username")
        /\ ValidateLogin(args[p]) = <<>> /\ ValidateLogin(args[q]) = <<>>
        /\ \A u \in users : u.username # args[p].username
        /\ \E u \in users : u.username = args[q].username
        /\ \A u \in users : ~BcryptCompare(args[q].password, u.password)
        /\ result[p].status = "error" /\ result[q].status = "error"
        /\ result[p].error = result[q].error

(***************************************************************************)
(* Properties of the employee directory.                                   *)
(***************************************************************************)
\* The step by which the call in slot p leaves the await at label.
StepFrom(p, label) == pc[p] = label /\ pc'[p] # label

\* A step by which the call in slot p fails.
FailsAt(p) ==
    /\ pc'[p] = "done" /\ result'[p].status = "error"
    /\ pc[p] # "done" \/ op[p] # op'[p] \/ args[p] # args'[p]

\* Another employee than eid holds this email, letter case ignored.
HeldByAnother(eid, email) ==
    \E e \in employees :
        e._id # eid /\ ToLowerCase(e.email) = ToLowerCase(email)

\* The store's validators accept the supplied fields.
StoreAccepts(fields) ==
    /\ Has(fields, "designation") => Trim(fields.designation) # ""
    /\ Has(fields, "department") => Trim(fields.department) # ""
    /\ Has(fields, "salary") => fields.salary >= 1000

UniqueEmails ==
    \A e1, e2 \in employees :
        e1 # e2 => /\ e1._id # e2._id
                   /\ ToLowerCase(e1.email) # ToLowerCase(e2.email)

\* C2: no two stored employees ever have emails equal ignoring letter case;
\* and an addEmployee or updateEmployee that would give a second employee
\* such an email fails with BAD_USER_INPUT 'Email already exists.' and
\* writes nothing, at the pre-check and at the write alike.  (The store is
\* empty or holds distinct emails to begin with.)
C2_EmployeeEmailsUnique ==
    [][/\ UniqueEmails'
       /\ \A p \in Procs :
            ( \/ /\ StepFrom(p, "add_findOne") \/ StepFrom(p, "add_create")
                 /\ StoreAccepts(args[p])
                 /\ HeldByAnother(Undefined, args[p].email)
              \/ /\ StepFrom(p, "update_findOne")
                 /\ HeldByAnother(args[p].eid, args[p].email)
              \/ /\ StepFrom(p, "update_findByIdAndUpdate")
                 /\ StoreAccepts(args[p])
                 /\ Has(args[p], "email")
                 /\ \E e \in employees : e._id = args[p].eid
                 /\ HeldByAnother(args[p].eid, args[p].email) )
            => /\ pc'[p] = "done"
               /\ result'[p].status = "error"
               /\ result'[p].error = DuplicateEmail
               /\ employees' = employees]_vars

\* Two addEmployee calls whose emails differ only in case have both
\* returned: one employee holds the email, the other call was refused.
C2_Witness ==
    \E p, q \in Procs :
        /\ Done(p, "addEmployee") /\ Done(q, "addEmployee")
        /\ args[p].email = "A@x.io" /\ args[q].email = "a@x.io"
        /\ Succeeded(p) /\ FailedWith(q, DuplicateEmail)
        /\ Cardinality({e \in employees : e.email = "a@x.io"}) = 1

SalaryRejected(p) ==
    /\ pc[p] = "done"
    /\ result[p].status = "error"
    /\ result[p].error =
          GraphQLError("Salary must be at least 1000.", "BAD_USER_INPUT")

\* The other input of an addEmployee or updateEmployee with a salary is valid.
OtherInputValid(p) ==
    /\ op[p] \in {"addEmployee", "updateEmployee"}
    /\ Has(args[p], "salary")
    /\ Has(args[p], "eid") => args[p].eid \notin {"", "xyz"}
    /\ Has(args[p], "email") => IsEmail(args[p].email)
    /\ Has(args[p], "designation") => Trim(args[p].designation) # ""

C3_SalaryInvariant ==
    /\ \A e \in employees : e.salary >= 1000
    /\ \A p \in Procs :
        OtherInputValid(p)
        => /\ args[p].salary < 1000 => SalaryRejected(p)
           /\ args[p].salary = 1000 /\ pc[p] = "done" /\ ~Succeeded(p)
                => result[p].error \in
                      {DuplicateEmail, GraphQLError("Employee not found.", "NOT_FOUND")}

\* C3: an addEmployee or updateEmployee with a salary below 1000 (its other
\* input valid) fails with BAD_USER_INPUT and writes nothing; with salary
\* exactly 1000 it succeeds, storing 1000, when its email is free and, for
\* an update, its target exists, and otherwise fails only for the taken
\* email or the missing target; and every stored employee has
\* salary >= 1000.
C3_SalaryRule ==
    [][/\ C3_SalaryInvariant'
       /\ \A p \in Procs :
            /\ ( /\ FailsAt(p)
                 /\ Has(args'[p], "salary") /\ args'[p].salary < 1000 )
               => employees' = employees
            /\ ( /\ OtherInputValid(p) /\ args[p].salary = 1000
                 /\ \/ /\ StepFrom(p, "add_create")
                       /\ ~Truthy(args[p], "employee_photo")
                       /\ ~HeldByAnother(Undefined, args[p].email)
                    \/ /\ StepFrom(p, "update_findByIdAndUpdate")
                       /\ \E e \in employees : e._id = args[p].eid
                       /\ Has(args[p], "email")
                            => ~HeldByAnother(args[p].eid, args[p].email) )
               => /\ result'[p].status = "ok"
                  /\ result'[p].value.salary = 1000
                  /\ result'[p].value \in employees']_vars

\* An addEmployee with salary 999 was refused and an updateEmployee to
\* salary 1000 succeeded.
C3_Witness ==
    \E p, q \in Procs :
        /\ op[p] = "addEmployee" /\ args[p].salary = 999 /\ SalaryRejected(p)
        /\ Done(q, "updateEmployee")
        /\ Has(args[q], "salary") /\ args[q].salary = 1000
        /\ Succeeded(q) /\ result[q].value.salary = 1000
        /\ result[q].value \in employees

NotFound == GraphQLError("Employee not found.", "NOT_FOUND")

\* The call in slot p is an updateEmployee past validation (so its id is
\* well-formed) whose id matches no stored employee, and this step ends it.
UpdateOfMissingEnds(p) ==
    /\ op[p] = "updateEmployee"
    /\ StepFrom(p, "update_findOne") \/ StepFrom(p, "update_findByIdAndUpdate")
    /\ pc'[p] = "done"
    /\ \A e \in employees : e._id # args[p].eid

\* C6 as claimed, for the calls whose fields the store's validators accept
\* as well: an updateEmployee with valid fields and a well-formed id that
\* matches no stored employee fails with NOT_FOUND and writes nothing.
C6_MissingTargetAlwaysNotFound ==
    [][\A p \in Procs :
        UpdateOfMissingEnds(p) /\ StoreAccepts(args[p])
        => /\ result'[p].status = "error"
           /\ result'[p].error = NotFound
           /\ employees' = employees]_vars

\* C6, amended: such a call writes nothing and fails: with BAD_USER_INPUT
\* 'Email already exists.' at the pre-check, when another employee holds
\* the supplied email; else with the store's validation error, when the
\* store's validators reject a supplied field; else with NOT_FOUND, which
\* the handler of duplicate-key failures leaves as it is.
C6_MissingTargetNotFound ==
    [][\A p \in Procs :
        UpdateOfMissingEnds(p)
        => /\ employees' = employees
           /\ result'[p].status = "error"
           /\ IF pc[p] = "update_findOne"
              THEN /\ HeldByAnother(args[p].eid, args[p].email)
                   /\ result'[p].error = DuplicateEmail
              ELSE IF ~StoreAccepts(args[p])
              THEN result'[p].error.name = "ValidationError"
              ELSE result'[p].error = NotFound]_vars

\* An updateEmployee that supplied an email no one holds, for an id the
\* store never generated, has failed with NOT_FOUND.
C6_Witness ==
    \E p \in Procs :
        /\ Done(p, "updateEmployee")
        /\ args[p].eid = GeneratedId(0)
        /\ Has(args[p], "email")
        /\ FailedWith(p, NotFound)

\* C7: deleteEmployee on a malformed identifier fails with BAD_USER_INPUT
\* and on a well-formed one that matches no stored employee with NOT_FOUND,
\* the stored employees unchanged; on the identifier of a stored employee it
\* removes that employee, leaves every other one as it was, and returns
\* 'Employee deleted successfully.'.
C7_DeleteEmployee ==
    [][\A p \in Procs :
        /\ ( /\ op'[p] = "deleteEmployee" /\ pc'[p] # "idle"
             /\ args'[p].eid = "xyz" )
           => /\ pc'[p] = "done"
              /\ result'[p].status = "error"
              /\ result'[p].error =
                    GraphQLError("Invalid employee ID.", "BAD_USER_INPUT")
              /\ FailsAt(p) => employees' = employees
        /\ StepFrom(p, "delete_findByIdAndDelete")
           => /\ pc'[p] = "done"
              /\ IF \A e \in employees : e._id # args[p].eid
                 THEN /\ result'[p].status = "error"
                      /\ result'[p].error = NotFound
                      /\ employees' = employees
                 ELSE /\ result'[p].status = "ok"
                      /\ result'[p].value = "Employee deleted successfully."
                      /\ employees' = {e \in employees : e._id # args[p].eid}
                      /\ Cardinality(employees') = Cardinality(employees) - 1]_vars

\* A deleteEmployee has removed one of two stored employees.
C7_Witness ==
    \E p \in Procs :
        /\ Done(p, "deleteEmployee") /\ Succeeded(p)
        /\ \A e \in employees : e._id # args[p].eid
        /\ employees # {}

\* C8: a getEmployeeById on the id addEmployee returned, no update or delete
\* of that employee in between, returns the employee with the salary
\* supplied and the email supplied, lower-cased.
C8_AddThenGetRoundTrip ==
    [][\A p \in Procs :
        StepFrom(p, "get_findById") /\ Has(added, args[p].eid)
        => /\ pc'[p] = "done"
           /\ result'[p].status = "ok"
           /\ result'[p].value._id = args[p].eid
           /\ result'[p].value.salary = added[args[p].eid].salary
           /\ result'[p].value.email = ToLowerCase(added[args[p].eid].email)]_vars

\* A getEmployeeById has returned an employee created from an email with a
\* capital letter.
C8_Witness ==
    \E p \in Procs :
        /\ Done(p, "getEmployeeById") /\ Succeeded(p)
        /\ Has(added, args[p].eid)
        /\ added[args[p].eid].email # result[p].value.email
        /\ added[args[p].eid].salary = result[p].value.salary

\* The step by which the updateEmployee in slot p succeeds.
UpdateSucceeds(p) ==
    /\ StepFrom(p, "update_findByIdAndUpdate")
    /\ pc'[p] = "done" /\ result'[p].status = "ok"

\* The update changed, of the employee args[p].eid, only fields among those
\* supplied and those of also, and no other employee.
OnlySuppliedChange(p, also) ==
    \E old \in employees, new \in employees' :
        /\ old._id = args[p].eid /\ new._id = args[p].eid
        /\ result'[p].value = new
        /\ employees' \ {new} = employees \ {old}
        /\ \A f \in DOMAIN old \ (DOMAIN args[p] \cup also) : new[f] = old[f]
        /\ DOMAIN new = DOMAIN old
        /\ Has(args[p], "email") => new.email = ToLowerCase(args[p].email)
        /\ Has(args[p], "salary") => new.salary = args[p].salary

\* C9 as claimed: a successful updateEmployee changes only the supplied
\* fields of its employee, every field not supplied keeping its value.
C9_OnlySuppliedFieldsChange ==
    [][\A p \in Procs : UpdateSucceeds(p) => OnlySuppliedChange(p, {})]_vars

\* C9, amended: a successful updateEmployee changes only the supplied
\* fields of its employee and updated_at, which the store sets to the time
\* of the write; every other field not supplied, the id included, keeps its
\* value, and every other stored employee is unchanged.
C9_OnlySuppliedFieldsAndUpdatedAtChange ==
    [][\A p \in Procs :
        UpdateSucceeds(p) => OnlySuppliedChange(p, {"updated_at"})]_vars

\* An updateEmployee of one of two stored employees has succeeded at a later
\* time than the employee was created at.
C9_Witness ==
    \E p \in Procs :
        /\ Done(p, "updateEmployee") /\ Succeeded(p)
        /\ result[p].value \in employees
        /\ result[p].value.updated_at > result[p].value.created_at
        /\ \E e \in employees : e._id # args[p].eid

\* C10: every failure reaches the caller as an error of kind
\* BAD_USER_INPUT, UNAUTHENTICATED, NOT_FOUND or INTERNAL_SERVER_ERROR; and
\* a failure of the store other than the duplicate key on email, its schema
\* validation included, as INTERNAL_SERVER_ERROR.
C10_EveryFailureTyped ==
    [][\A p \in Procs :
        /\ ( pc'[p] = "done" /\ result'[p].status = "error" )
           => FormatError(result'[p].error).extensions.code \in
                 {"BAD_USER_INPUT", "UNAUTHENTICATED", "NOT_FOUND",
                  "INTERNAL_SERVER_ERROR"}
        /\ ( /\ StepFrom(p, "add_create") \/ StepFrom(p, "update_findByIdAndUpdate")
             /\ ~StoreAccepts(args[p]) )
           => /\ pc'[p] = "done" /\ result'[p].status = "error"
              /\ FormatError(result'[p].error).extensions.code =
                    "INTERNAL_SERVER_ERROR"
              /\ employees' = employees]_vars

\* A call has failed on the store's schema validation.
C10_Witness ==
    \E p \in Procs :
        /\ pc[p] = "done" /\ result[p].status = "error"
        /\ result[p].error.name = "ValidationError"

====
